---- MODULE Spec2Model ----
(***************************************************************************)
(* Model of typing_metric2.py: the market-data fetch (get_stock_data), the *)
(* chart renderer (generate_metric_graph) and the Dash callback            *)
(* (update_graphs) that drives four panels and the metrics table.          *)
(*                                                                         *)
(* The market-data provider (yfinance) is outside the program: each call   *)
(* of get_stock_data meets one provider behaviour, chosen                  *)
(* nondeterministically: the handle constructor may raise, history() may   *)
(* raise or return any frame, and .info may raise or be any dictionary.    *)
(***************************************************************************)
EXTENDS Integers, Sequences, FiniteSets, TLC

VARIABLES
    stock_input,          \* value of the "stock-input" component
    start_date,           \* start_date of "date-picker-range"
    end_date,             \* end_date of "date-picker-range"
    metric_dropdown,      \* values of metric-dropdown-0..3
    chart_type_dropdown,  \* values of chart-type-dropdown-0..3
    pc,                   \* position of the update_graphs callback
    figures,              \* figures built so far by the comprehension of update_graphs
    outputs,              \* the value update_graphs returned
    nfetch,               \* get_stock_data calls made by the running recomputation
    events,               \* input changes made by the user so far
    call,                 \* arguments of a direct generate_metric_graph invocation
    stock_data,           \* frame bound at line 77 by that invocation
    fig,                  \* what that invocation returned
    ret,                  \* what a direct get_stock_data invocation returned
    prev                  \* frame and result of the invocation before it

vars == <<stock_input, start_date, end_date, metric_dropdown, chart_type_dropdown,
          pc, figures, outputs, nfetch, events, call, stock_data, fig, ret, prev>>

ctlVars == <<stock_input, start_date, end_date, metric_dropdown, chart_type_dropdown,
             pc, figures, outputs, nfetch, events>>

callVars == <<call, stock_data, fig, ret, prev>>

-----------------------------------------------------------------------------
(* Bounds of the model *)

MaxRows == 1

MaxDate == 2

MaxEvents == 2

-----------------------------------------------------------------------------
(* Values of the program *)

None == "<None>"

NA == "N/A"

theme ==
    [background |-> "#121212", text |-> "#F5F5F5", plot_bg |-> "#1a1a1a", line |-> "#00CED1"]

metric_options ==
    <<"Open", "Close", "High", "Low", "Volume", "Market Cap", "PE Ratio", "Dividend Yield">>

chart_type_options ==
    <<"lines", "bars", "markers", "bubble", "candlestick", "choropleth">>

MetricValues == {metric_options[k] : k \in 1..Len(metric_options)}

ChartTypeValues == {chart_type_options[k] : k \in 1..Len(chart_type_options)}

NumPanels == 4

Panels == 0..(NumPanels - 1)

DefaultMetric == "Close"

DefaultChartType == "lines"

DefaultStart == 1

DefaultEnd == 2

Dates == 0..MaxDate

Tickers == {"XYZ", "ACME"}

\* what the symbol box holds in the sessions of the model: nothing yet, cleared, a symbol
StockInputs == {None, "", "XYZ"}

Height == 400

-----------------------------------------------------------------------------
(* The provider *)

Columns == {"Open", "High", "Low", "Close", "Volume"}

Frames == [cols : SUBSET Columns, rows : 0..MaxRows]

\* pd.DataFrame(): no columns, no rows
EmptyFrame == [cols |-> {}, rows |-> 0]

\* the keys get_stock_data reads from stock.info, in the order of the metrics dict
InfoKeys ==
    <<"open", "previousClose", "dayHigh", "dayLow", "volume", "marketCap",
      "trailingPE", "dividendYield">>

InfoKeySet == {InfoKeys[k] : k \in 1..Len(InfoKeys)}

\* the dictionaries .info may be: every key, no key, or no ratio of a fund or index
InfoDicts == {InfoKeySet, {}, InfoKeySet \ {"trailingPE", "dividendYield"}}

CtorRaises ==
    [ctor |-> "raise", history |-> "raise", frame |-> EmptyFrame, info |-> "raise", keys |-> {}]

HistoryRaises ==
    [ctor |-> "ok", history |-> "raise", frame |-> EmptyFrame, info |-> "raise", keys |-> {}]

ProviderBehaviours ==
    {CtorRaises, HistoryRaises}
    \cup {[ctor |-> "ok", history |-> "ok", frame |-> f, info |-> "raise", keys |-> {}] :
            f \in Frames}
    \cup {[ctor |-> "ok", history |-> "ok", frame |-> f, info |-> "ok", keys |-> d] :
            f \in Frames, d \in InfoDicts}

-----------------------------------------------------------------------------
(* get_stock_data *)

Raised(exc) == [raised |-> TRUE, exc |-> exc]

\* stock.info.get(key, 'N/A'): the provider's value, written as the key itself
InfoGet(keys, key) == IF key \in keys THEN key ELSE NA

\* pd.DataFrame(metrics.items(), columns=['Metric', 'Value']) as its records
MetricsFrame(keys) ==
    [k \in 1..Len(metric_options) |->
        [Metric |-> metric_options[k], Value |-> InfoGet(keys, InfoKeys[k])]]

get_stock_data(ticker, start, end, b) ==
    IF b.ctor = "raise"
    THEN Raised("ProviderError")
    ELSE IF b.history = "raise" \/ b.info = "raise"
         THEN [raised |-> FALSE, hist |-> EmptyFrame, metrics |-> <<>>]
         ELSE [raised |-> FALSE, hist |-> b.frame, metrics |-> MetricsFrame(b.keys)]

-----------------------------------------------------------------------------
(* generate_metric_graph *)

NoLayout ==
    [title |-> None, plot_bgcolor |-> None, paper_bgcolor |-> None, font_color |-> None,
     xaxis_title |-> None, yaxis_title |-> None, height |-> 0]

FigureReused ==
    IF fig.called /\ ~fig.result.raised THEN fig.result.fig
    ELSE [data |-> <<>>, layout |-> NoLayout]

\* go.Figure(): a new figure, with no trace and no layout
Figure == [data |-> <<>>, layout |-> NoLayout]

MetricTitle(metric, ticker) == metric \o " for " \o ticker

NoDataTitle(metric, ticker) == "No data available for " \o metric \o " of " \o ticker

MetricLayout(metric, ticker) ==
    [title |-> MetricTitle(metric, ticker), plot_bgcolor |-> theme.plot_bg,
     paper_bgcolor |-> theme.background, font_color |-> theme.text,
     xaxis_title |-> "Time", yaxis_title |-> metric, height |-> Height]

NoDataLayout(metric, ticker) ==
    [title |-> NoDataTitle(metric, ticker), plot_bgcolor |-> theme.plot_bg,
     paper_bgcolor |-> theme.background, font_color |-> theme.text,
     xaxis_title |-> None, yaxis_title |-> None, height |-> Height]

\* a trace over the frame's index: y names the column plotted, points counts the rows
Trace(type, mode, y, size, points) ==
    [type |-> type, mode |-> mode, x |-> "index", y |-> y, size |-> size, points |-> points]

CandlestickColumns == {"Open", "High", "Low", "Close"}

\* the KeyError of stock_data[column] when the frame has no such column
Missing(columns, frame) == ~(columns \subseteq frame.cols)

\* lines 81-82
LinesTraces(metric, frame) ==
    <<Trace("scatter", "lines", metric, None, frame.rows)>>

\* lines 83-84
BarsTraces(metric, frame) ==
    <<Trace("bar", None, metric, None, frame.rows)>>

\* lines 85-86
MarkersTraces(metric, frame) ==
    <<Trace("scatter", "markers", metric, None, frame.rows)>>

\* lines 87-89: marker size is the Volume column
BubbleTraces(metric, frame) ==
    <<Trace("scatter", "markers", metric, "Volume", frame.rows)>>

\* lines 90-97
CandlestickTraces(metric, frame) ==
    <<Trace("candlestick", None, "OHLC", None, frame.rows)>>

ChoroplethTracesDrawn(metric, frame) ==
    <<Trace("choropleth", None, metric, None, frame.rows)>>

\* no branch of lines 81-97 matches 'choropleth': nothing is added
ChoroplethTraces(metric, frame) == <<>>

\* lines 80-115: the figure built from the fetched frame, or the KeyError of a
\* column lookup
RenderFrame(ticker, metric, chart_type, frame) ==
    IF metric \in frame.cols
    THEN IF chart_type = "bubble" /\ Missing({"Volume"}, frame)
         THEN Raised("KeyError")
         ELSE IF chart_type = "candlestick" /\ Missing(CandlestickColumns, frame)
         THEN Raised("KeyError")
         ELSE LET traces ==
                    CASE chart_type = "lines" -> LinesTraces(metric, frame)
                      [] chart_type = "bars" -> BarsTraces(metric, frame)
                      [] chart_type = "markers" -> MarkersTraces(metric, frame)
                      [] chart_type = "bubble" -> BubbleTraces(metric, frame)
                      [] chart_type = "candlestick" -> CandlestickTraces(metric, frame)
                      [] OTHER -> ChoroplethTraces(metric, frame)
              IN [raised |-> FALSE,
                  fig |-> [data |-> Figure.data \o traces,
                           layout |-> MetricLayout(metric, ticker)]]
    ELSE [raised |-> FALSE,
          fig |-> [data |-> Figure.data, layout |-> NoDataLayout(metric, ticker)]]

\* line 77 and then lines 78-115
generate_metric_graph(ticker, metric, chart_type, start, end, b) ==
    LET fetched == get_stock_data(ticker, start, end, b)
    IN IF fetched.raised
       THEN fetched
       ELSE RenderFrame(ticker, metric, chart_type, fetched.hist)

-----------------------------------------------------------------------------
(* update_graphs: the callback of lines 212-236 *)

NoOutput == [returned |-> FALSE]

\* the Inputs of the callback after ticker and the two dates (lines 218-219)
ArgsOf(metrics, chart_types) ==
    [k \in 1..(2 * NumPanels) |->
        IF k <= NumPanels THEN metrics[k - 1] ELSE chart_types[k - 1 - NumPanels]]

Args == ArgsOf(metric_dropdown, chart_type_dropdown)

\* args[:4]
metric_values(args) == SubSeq(args, 1, NumPanels)

chart_values_from_3(args) == SubSeq(args, NumPanels, Len(args) - 1)

\* args[4:]
chart_values(args) == SubSeq(args, NumPanels + 1, Len(args))

\* the selection handed to generate_metric_graph for panel i (line 229)
PanelArgs(args, i) ==
    [metric |-> metric_values(args)[i + 1], chart_type |-> chart_values(args)[i + 1]]

\* line 223: [go.Figure()] * 4, []
IdleReturn == << [k \in 1..NumPanels |-> Figure], <<>> >>

\* line 236: figures + [metrics_df.to_dict('records')]
PopulatedReturn(figs, metrics) == figs \o << metrics >>

\* `not ticker`
Falsy(ticker) == ticker = None \/ ticker = ""

NoCall ==
    [ticker |-> None, metric |-> None, chart_type |-> None,
     start |-> DefaultStart, end |-> DefaultEnd]

NotCalled == [called |-> FALSE]

NotFetched == [fetched |-> FALSE]

\* the page as laid out (lines 129-171), with the callback about to run on it
Session ==
    /\ stock_input = None
    /\ start_date = DefaultStart
    /\ end_date = DefaultEnd
    /\ metric_dropdown = [i \in Panels |-> DefaultMetric]
    /\ chart_type_dropdown = [i \in Panels |-> DefaultChartType]
    /\ pc = "start"
    /\ figures = <<>>
    /\ outputs = NoOutput
    /\ nfetch = 0
    /\ events = 0

Init ==
    /\ Session
    /\ call = NoCall
    /\ ret = NotCalled
    /\ stock_data = NotFetched
    /\ fig = NotCalled
    /\ prev = NotCalled

\* an input of the callback changes: Dash runs update_graphs again
Fire ==
    /\ pc \in {"done", "raised"}
    /\ events < MaxEvents
    /\ events' = events + 1
    /\ pc' = "start"
    /\ figures' = <<>>
    /\ outputs' = NoOutput
    /\ nfetch' = 0
    /\ UNCHANGED callVars

ChangeStockInput ==
    \E t \in StockInputs \ {None, stock_input} :
        /\ Fire
        /\ stock_input' = t
        /\ UNCHANGED <<start_date, end_date, metric_dropdown, chart_type_dropdown>>

ChangeStartDate ==
    \E d \in Dates \ {start_date} :
        /\ Fire
        /\ start_date' = d
        /\ UNCHANGED <<stock_input, end_date, metric_dropdown, chart_type_dropdown>>

ChangeEndDate ==
    \E d \in Dates \ {end_date} :
        /\ Fire
        /\ end_date' = d
        /\ UNCHANGED <<stock_input, start_date, metric_dropdown, chart_type_dropdown>>

ChangeMetric ==
    \E i \in Panels : \E m \in MetricValues \ {metric_dropdown[i]} :
        /\ Fire
        /\ metric_dropdown' = [metric_dropdown EXCEPT ![i] = m]
        /\ UNCHANGED <<stock_input, start_date, end_date, chart_type_dropdown>>

ChangeChartType ==
    \E i \in Panels : \E c \in ChartTypeValues \ {chart_type_dropdown[i]} :
        /\ Fire
        /\ chart_type_dropdown' = [chart_type_dropdown EXCEPT ![i] = c]
        /\ UNCHANGED <<stock_input, start_date, end_date, metric_dropdown>>

inputVars == <<stock_input, start_date, end_date, metric_dropdown, chart_type_dropdown, events>>

CountFetchMemoised(n) == IF n = 0 THEN 1 ELSE n

\* one more call of get_stock_data has been entered (line 33)
CountFetch(n) == n + 1

\* lines 222-223
UpdateGraphsIdle ==
    /\ pc = "start"
    /\ Falsy(stock_input)
    /\ outputs' = [returned |-> TRUE, value |-> IdleReturn]
    /\ pc' = "done"
    /\ UNCHANGED <<figures, nfetch, inputVars, callVars>>

\* lines 225-226
UpdateGraphsBegin ==
    /\ pc = "start"
    /\ ~Falsy(stock_input)
    /\ pc' = "panel"
    /\ UNCHANGED <<figures, outputs, nfetch, inputVars, callVars>>

\* what one generate_metric_graph call can return, over the provider's behaviours
PanelOutcomes[t \in Tickers, m \in MetricValues, c \in ChartTypeValues, s \in Dates, e \in Dates] ==
    {generate_metric_graph(t, m, c, s, e, b) : b \in ProviderBehaviours}

\* one iteration of the comprehension of lines 228-231
UpdateGraphsPanel ==
    /\ pc = "panel"
    /\ Len(figures) < NumPanels
    /\ LET a == PanelArgs(Args, Len(figures))
       IN \E r \in PanelOutcomes[stock_input, a.metric, a.chart_type, start_date, end_date] :
             /\ nfetch' = CountFetch(nfetch)
             /\ IF r.raised
                THEN /\ pc' = "raised"
                     /\ figures' = figures
                ELSE /\ figures' = Append(figures, r.fig)
                     /\ pc' = IF Len(figures) + 1 = NumPanels THEN "table" ELSE "panel"
    /\ UNCHANGED <<outputs, inputVars, callVars>>

\* `_, metrics_df = ...` (line 234): the series of the fetch is dropped
MetricsOf(fetched) ==
    IF fetched.raised THEN fetched ELSE [raised |-> FALSE, metrics |-> fetched.metrics]

\* what the fetch of line 234 can leave in metrics_df, over the provider's behaviours
TableOutcomes[t \in Tickers, s \in Dates, e \in Dates] ==
    {MetricsOf(get_stock_data(t, s, e, b)) : b \in ProviderBehaviours}

\* lines 233-236
UpdateGraphsTable ==
    /\ pc = "table"
    /\ \E r \in TableOutcomes[stock_input, start_date, end_date] :
             /\ nfetch' = CountFetch(nfetch)
             /\ IF r.raised
                THEN /\ pc' = "raised"
                     /\ outputs' = outputs
                ELSE /\ pc' = "done"
                     /\ outputs' = [returned |-> TRUE,
                                    value |-> PopulatedReturn(figures, r.metrics)]
    /\ UNCHANGED <<figures, inputVars, callVars>>

Next ==
    \/ ChangeStockInput
    \/ ChangeStartDate
    \/ ChangeEndDate
    \/ ChangeMetric
    \/ ChangeChartType
    \/ UpdateGraphsIdle
    \/ UpdateGraphsBegin
    \/ UpdateGraphsPanel
    \/ UpdateGraphsTable

Spec == Init /\ [][Next]_vars

-----------------------------------------------------------------------------
(* The two functions called directly, on arguments drawn from their domains *)

\* the arguments update_graphs can hand to the functions while the dates are
\* the defaults of the date picker
CallArgs ==
    [ticker : Tickers, metric : MetricValues, chart_type : ChartTypeValues,
     start : {DefaultStart}, end : {DefaultEnd}]

InitCall ==
    /\ Session
    /\ call \in CallArgs
    /\ ret = NotCalled
    /\ stock_data = NotFetched
    /\ fig = NotCalled
    /\ prev = NotCalled

\* line 77: `stock_data, _ = get_stock_data(...)`
BoundFrame(fetched) ==
    IF fetched.raised THEN NotFetched ELSE [fetched |-> TRUE, frame |-> fetched.hist]

\* the frame bound at line 77 and the value returned at line 115, over the
\* provider's behaviours
CallOutcomes(c) ==
    {[stock_data |-> BoundFrame(get_stock_data(c.ticker, c.start, c.end, b)),
      result |-> generate_metric_graph(c.ticker, c.metric, c.chart_type, c.start, c.end, b)] :
        b \in ProviderBehaviours}

CallGetStockData ==
    /\ ~ret.called
    /\ ~fig.called
    /\ \E b \in ProviderBehaviours :
          ret' = [called |-> TRUE,
                  result |-> get_stock_data(call.ticker, call.start, call.end, b)]
    /\ UNCHANGED <<ctlVars, call, stock_data, fig, prev>>

CallGenerateMetricGraph ==
    /\ ~ret.called
    /\ ~fig.called
    /\ \E o \in CallOutcomes(call) :
          /\ stock_data' = o.stock_data
          /\ fig' = [called |-> TRUE, result |-> o.result]
    /\ UNCHANGED <<ctlVars, call, ret, prev>>

\* the same arguments once more
CallGenerateMetricGraphAgain ==
    /\ fig.called
    /\ ~prev.called
    /\ \E o \in CallOutcomes(call) :
          /\ stock_data' = o.stock_data
          /\ fig' = [called |-> TRUE, result |-> o.result]
    /\ prev' = [called |-> TRUE, stock_data |-> stock_data, result |-> fig.result]
    /\ UNCHANGED <<ctlVars, call, ret>>

NextCall ==
    \/ CallGetStockData
    \/ CallGenerateMetricGraph
    \/ CallGenerateMetricGraphAgain

SpecCall == InitCall /\ [][NextCall]_vars

-----------------------------------------------------------------------------
(* Properties *)

Populated == ~Falsy(stock_input)

\* the no-data placeholder: no trace, titled "No data available for {metric} of {ticker}"
NoDataFigure(metric, ticker) ==
    [data |-> <<>>, layout |-> NoDataLayout(metric, ticker)]

\* a direct generate_metric_graph call got a frame from get_stock_data
Rendered == fig.called /\ stock_data.fetched

C2_IdleReturnsFiveOutputs ==
    (pc = "done" /\ ~Populated) =>
        /\ nfetch = 0
        /\ outputs.returned
        /\ Len(outputs.value) = NumPanels + 1
        /\ \A k \in 1..NumPanels : outputs.value[k] = Figure
        /\ outputs.value[NumPanels + 1] = <<>>

\* C3: get_stock_data never raises, and whatever the provider does (history or
\* info failing included) every call returns a metrics record of exactly eight
\* rows, one per metric in order, each value the provider's or 'N/A'. Stated
\* here for the calls that return, which is where the code first departs from it.
C3_FetchReturnsEightRows ==
    (ret.called /\ ~ret.result.raised) =>
        /\ Len(ret.result.metrics) = Len(metric_options)
        /\ \A k \in 1..Len(metric_options) :
              /\ ret.result.metrics[k].Metric = metric_options[k]
              /\ ret.result.metrics[k].Value \in {NA, InfoKeys[k]}

C5_CandlestickMissingColumn ==
    (/\ Rendered
     /\ call.chart_type = "candlestick"
     /\ stock_data.frame.rows > 0
     /\ Missing(CandlestickColumns, stock_data.frame)) =>
        /\ ~fig.result.raised
        /\ fig.result.fig = NoDataFigure(call.metric, call.ticker)

\* C6: for chart type bubble on a frame that holds the metric and has no
\* Volume column, nothing is raised and the result is one marker trace of the
\* metric whose size is a constant, not a column.
C6_BubbleWithoutVolume ==
    (/\ Rendered
     /\ call.chart_type = "bubble"
     /\ call.metric \in stock_data.frame.cols
     /\ "Volume" \notin stock_data.frame.cols) =>
        /\ ~fig.result.raised
        /\ Len(fig.result.fig.data) = 1
        /\ fig.result.fig.data[1].mode = "markers"
        /\ fig.result.fig.data[1].y = call.metric
        /\ fig.result.fig.data[1].size \notin Columns

\* C7: when start_date is after end_date, every panel of the recomputation is
\* the no-data placeholder, as for an empty fetched series, whatever the provider
\* returns for the range. Stated here for the recomputations that return.
C7_InvertedRangeIsEmpty ==
    (Populated /\ start_date > end_date /\ pc = "done") =>
        \A i \in Panels :
           outputs.value[i + 1] = NoDataFigure(metric_dropdown[i], stock_input)

\* C8: whenever the fetched series has no rows, the result is the no-data
\* placeholder for every metric and chart type, and nothing is raised.
C8_EmptySeriesPlaceholder ==
    (Rendered /\ stock_data.frame.rows = 0) =>
        /\ ~fig.result.raised
        /\ fig.result.fig = NoDataFigure(call.metric, call.ticker)

ArgsWith(j, m, c) ==
    ArgsOf([metric_dropdown EXCEPT ![j] = m], [chart_type_dropdown EXCEPT ![j] = c])

\* C10: in a Populated recomputation the selection handed to the renderer for
\* panel i is panel i's own metric and chart type, whatever the dropdowns of
\* another panel j hold; every figure built for panel i is a result of
\* generate_metric_graph on that selection; and the value returned carries
\* the four figures in panel order.
C10_PanelOwnSelection ==
    /\ ((Populated /\ pc = "start") =>
          \A j \in Panels : \A m \in MetricValues : \A c \in ChartTypeValues :
             LET args == ArgsWith(j, m, c)
             IN \A i \in Panels \ {j} :
                   PanelArgs(args, i) =
                      [metric |-> metric_dropdown[i], chart_type |-> chart_type_dropdown[i]])
    /\ ((Populated /\ pc \in {"panel", "table", "done", "raised"}) =>
          \A i \in 0..(Len(figures) - 1) :
             [raised |-> FALSE, fig |-> figures[i + 1]] \in
                PanelOutcomes[stock_input, metric_dropdown[i], chart_type_dropdown[i],
                              start_date, end_date])
    /\ ((Populated /\ pc = "done") =>
          /\ Len(figures) = NumPanels
          /\ \A i \in Panels : outputs.value[i + 1] = figures[i + 1])

\* a recomputation has returned with panel 1 on another chart type than the rest
C10_Witness ==
    /\ pc = "done"
    /\ Populated
    /\ chart_type_dropdown[1] = "bars"
    /\ chart_type_dropdown[0] = "lines"
    /\ Len(outputs.value[1].data) = 1
    /\ Len(outputs.value[2].data) = 1
    /\ outputs.value[1].data[1].type = "scatter"
    /\ outputs.value[2].data[1].type = "bar"

====
